---- MODULE Spec2Model ----
(***************************************************************************)
(* Model of the two request handlers of the daily-briefing backend:        *)
(*   api/briefing.js  (two revisions of the handler, which differ only in  *)
(*                     what getNews does when the model's text holds no    *)
(*                     JSON array)                                         *)
(*   api/calendar.js                                                       *)
(* together with the per-category aggregation cache of the design          *)
(* (get / isValid / set), which the briefing handler consults before it    *)
(* calls a provider.                                                       *)
(*                                                                         *)
(* One request is in flight at a time (a serverless function instance      *)
(* serves one invocation at a time); its position is pc.  Every awaited    *)
(* provider call is one step whose outcome is chosen from a small set.     *)
(* Time is counted in units of 30 minutes.                                 *)
(***************************************************************************)
EXTENDS Integers, Sequences, FiniteSets

VARIABLES
    revision,     \* which briefing handler is deployed: "placeholder" | "error"
    credentials,  \* process.env.GOOGLE_CREDENTIALS: "valid" | "unset" | "malformed"
    now,          \* the clock
    cache,        \* Category -> CacheEntry
    pc,           \* position of the handler of the request in flight
    req,          \* the request in flight: endpoint, method, body
    spData,       \* getStocks: the first quote response, held across the second await
    newsText,     \* getNews: the text taken from a successful model response
    responses,    \* the responses sent for the request in flight
    calls,        \* the provider calls started for the request in flight
    writes,       \* the number of cache writes made for the request in flight
    consult,      \* outcome of the cache lookup: "none" | "hit" | "miss"
    failedAt,     \* Len(calls) when a provider call first failed, -1 before
    parsed,       \* calendar: number of credential parses / auth clients built
    cache0,       \* the cache as it was when the request arrived
    served        \* the number of requests received so far

vars == <<revision, credentials, now, cache, pc, req, spData, newsText, responses, calls,
          writes, consult, failedAt, parsed, cache0, served>>

----------------------------------------------------------------------------
(* Bounds *)

MaxTime == 2

MaxRequests == 2

----------------------------------------------------------------------------
(* The aggregation cache *)

TTL == 2

Category == {"weather", "stocks", "globalNews", "legalNews"}

NullData == [kind |-> "null"]

EmptyEntry == [data |-> NullData, timestamp |-> 0]

CacheGet(c) == cache[c]

\* isValid with the comparison the wrong way round
IsValidInverted(entry) == entry.data # NullData /\ now - entry.timestamp > TTL

IsValid(entry) == entry.data # NullData /\ now - entry.timestamp < TTL

\* set that stores the payload without the time of the call
CacheSetUnstamped(c, payload) == [cache EXCEPT ![c] = [data |-> payload, timestamp |-> 0]]

CacheSet(c, payload) == [cache EXCEPT ![c] = [data |-> payload, timestamp |-> now]]

----------------------------------------------------------------------------
(* Requests and responses *)

NoReq == [endpoint |-> "none"]

NoBody == [present |-> FALSE]

\* let newsText = '', before the model's response has been read
NoText == [set |-> FALSE]

\* res.status(200).end()
End(status) == [status |-> status, kind |-> "end"]

\* res.status(s).json({ error })
ErrorJson(status, error) ==
    [status |-> status, kind |-> "json", success |-> FALSE, error |-> error]

\* the catch block: res.status(500).json({ error, details: error.message })
Caught(error, message) ==
    [status |-> 500, kind |-> "json", success |-> FALSE, error |-> error,
     details |-> message]

\* res.status(200).json({ success: true, <key>: payload })
SuccessJson(key, payload) ==
    [status |-> 200, kind |-> "json", success |-> TRUE, key |-> key,
     payload |-> payload]

\* the same with the cache's flag: { success: true, <key>: payload, cached }
CachedJson(key, payload, flag) ==
    [status |-> 200, kind |-> "json", success |-> TRUE, key |-> key,
     payload |-> payload, cached |-> flag]

----------------------------------------------------------------------------
(* Steps shared by the handlers.  Each fixes the request-local state that   *)
(* the step of the handler leaves behind.                                  *)

\* a return that sends nothing
RespondNothing(resp) == responses

\* res.status(..).json(..) / .end() followed by return
Respond(resp) == Append(responses, resp)

\* return a response before any provider call or cache access
Reply(resp) ==
    /\ responses' = Respond(resp)
    /\ pc' = "done"
    /\ UNCHANGED <<cache, calls, writes, consult, failedAt, spData>>

\* an exception reaches the catch block of the handler; provider tells whether
\* it reports the failure of the provider call just awaited
Throw(error, message, provider) ==
    /\ responses' = Respond(Caught(error, message))
    /\ pc' = "done"
    /\ failedAt' = IF provider /\ failedAt = -1 THEN Len(calls) ELSE failedAt
    /\ UNCHANGED <<cache, calls, writes, consult, spData>>

\* await of a provider call begins
Await(provider, nextpc) ==
    /\ calls' = Append(calls, provider)
    /\ pc' = nextpc

\* cache lookup for a category: a hit answers from the cache, a miss starts
\* the category's fetch sequence
Lookup(c, key, provider, nextpc) ==
    IF IsValid(CacheGet(c))
    THEN /\ responses' = Respond(CachedJson(key, CacheGet(c).data, TRUE))
         /\ pc' = "done"
         /\ consult' = "hit"
         /\ UNCHANGED <<cache, calls, writes, failedAt, spData>>
    ELSE /\ Await(provider, nextpc)
         /\ consult' = "miss"
         /\ UNCHANGED <<cache, responses, writes, failedAt, spData>>

\* a fresh payload is stored and returned
StoreAndRespond(c, key, payload) ==
    /\ cache' = CacheSet(c, payload)
    /\ writes' = writes + 1
    /\ responses' = Respond(CachedJson(key, payload, FALSE))
    /\ pc' = "done"
    /\ UNCHANGED <<calls, consult, failedAt, spData>>

\* a test for undefined alone, which lets the empty string through
FalsyUndefinedOnly(v) == v = "undefined"

\* !value, for the strings a request field may hold
Falsy(v) == v \in {"undefined", ""}

\* req.method === 'OPTIONS'
MethodIsOptions(m) == m = "OPTIONS"

\* a method test that lets PUT through as well
MethodIsPostOrPut(m) == m \in {"POST", "PUT"}

\* req.method !== 'POST' is false
MethodIsPost(m) == m = "POST"

----------------------------------------------------------------------------
(* Weather *)

\* Math.round of a number given in tenths
Round(t) == (t + 5) \div 10

WeatherData ==
    { [hasMain |-> TRUE, temp |-> 724, feels_like |-> 705, hasHumidity |-> TRUE,
       humidity |-> 40, nWeather |-> 1, speed |-> 35],
      [hasMain |-> TRUE, temp |-> 725, feels_like |-> 694, hasHumidity |-> FALSE,
       humidity |-> 0, nWeather |-> 1, speed |-> 34],
      [hasMain |-> FALSE, temp |-> 0, feels_like |-> 0, hasHumidity |-> FALSE,
       humidity |-> 0, nWeather |-> 1, speed |-> 0],
      [hasMain |-> TRUE, temp |-> 724, feels_like |-> 705, hasHumidity |-> TRUE,
       humidity |-> 40, nWeather |-> 0, speed |-> 35] }

\* settled: the fetch rejected, the body was not JSON, or a JSON body arrived
WeatherOutcomes ==
    {[settled |-> "rejected"], [settled |-> "badjson"]} \cup
    [settled : {"json"}, ok : BOOLEAN, data : WeatherData]

\* reading weatherData.main.temp or weatherData.weather[0].description throws
WeatherThrows(d) == ~d.hasMain \/ d.nWeather = 0

\* a property that is undefined is left out by JSON serialisation
WeatherPayload(d) ==
    IF d.hasHumidity
    THEN [kind |-> "weather", temp |-> Round(d.temp), feels_like |-> Round(d.feels_like),
          description |-> "clear sky", icon |-> "01d", humidity |-> d.humidity,
          wind_speed |-> Round(d.speed)]
    ELSE [kind |-> "weather", temp |-> Round(d.temp), feels_like |-> Round(d.feels_like),
          description |-> "clear sky", icon |-> "01d",
          wind_speed |-> Round(d.speed)]

BriefingError == "Briefing operation failed"

WeatherFetchReturns(o) ==
    /\ pc = "weather_fetch"
    /\ IF o.settled # "json" THEN Throw(BriefingError, o.settled, TRUE)
       ELSE IF ~o.ok THEN Throw(BriefingError, "Weather API failed", TRUE)
       ELSE IF WeatherThrows(o.data) THEN Throw(BriefingError, "TypeError", FALSE)
       ELSE StoreAndRespond("weather", "weather", WeatherPayload(o.data))
    /\ UNCHANGED <<revision, credentials, now, req, parsed, cache0, served, newsText>>

----------------------------------------------------------------------------
(* Stocks *)

\* parseFloat(s).toFixed(2): s in thousandths, the result in hundredths
ToFixed2(x) == IF x < 0 THEN -((5 - x) \div 10) ELSE (x + 5) \div 10

RECURSIVE StripPercent(_)
\* s.replace('%', ''): the first '%' of the string is removed
StripPercent(s) ==
    IF s = <<>> THEN <<>>
    ELSE IF Head(s) = "%" THEN Tail(s)
    ELSE <<Head(s)>> \o StripPercent(Tail(s))

\* body['Global Quote']: absent (the provider's rate-limit note), an empty
\* object, or a quote
QuoteData(symbol) ==
    { [quote |-> "absent"], [quote |-> "empty"] } \cup
    IF symbol = "SPY"
    THEN { [quote |-> "full", price |-> 123456, change |-> 1200, pct |-> <<"0.98", "%">>] }
    ELSE { [quote |-> "full", price |-> 98765, change |-> -1234, pct |-> <<"-1.2", "%">>],
           [quote |-> "full", price |-> 98774, change |-> -1225, pct |-> <<"-1.1", "%">>] }

QuoteOutcomes(symbol) ==
    {[settled |-> "rejected"], [settled |-> "badjson"]} \cup
    [settled : {"json"}, ok : BOOLEAN, data : QuoteData(symbol)]

NoQuoteYet == [quote |-> "unset"]

\* !data['Global Quote']
NoGlobalQuote(d) == d.quote = "absent"

\* parseFloat(undefined).toFixed(2) is "NaN"; undefined.replace throws
QuoteThrows(d) == d.quote = "empty"

QuotePayload(d) ==
    [price |-> ToFixed2(d.price), change |-> ToFixed2(d.change),
     changePercent |-> StripPercent(d.pct)]

StocksPayload(sp, nasdaq) ==
    [kind |-> "stocks", sp500 |-> QuotePayload(sp), nasdaq |-> QuotePayload(nasdaq)]

\* the provider call has failed: a non-success status or no usable quote data
QuoteFailed(o) == ~o.ok \/ o.data.quote # "full"

SpFetchReturns(o) ==
    /\ pc = "sp_fetch"
    /\ IF o.settled # "json" THEN Throw(BriefingError, o.settled, TRUE)
       ELSE /\ spData' = o.data
            /\ Await("quote", "nasdaq_fetch")
            /\ failedAt' = IF QuoteFailed(o) /\ failedAt = -1 THEN Len(calls) ELSE failedAt
            /\ UNCHANGED <<cache, responses, writes, consult>>
    /\ UNCHANGED <<revision, credentials, now, req, parsed, cache0, served, newsText>>

NasdaqFetchReturns(o) ==
    /\ pc = "nasdaq_fetch"
    /\ IF o.settled # "json" THEN Throw(BriefingError, o.settled, TRUE)
       ELSE IF NoGlobalQuote(spData) \/ NoGlobalQuote(o.data)
       THEN Throw(BriefingError, "Stock API failed or rate limit reached", QuoteFailed(o))
       ELSE IF QuoteThrows(spData) \/ QuoteThrows(o.data)
       THEN Throw(BriefingError, "TypeError", QuoteFailed(o))
       ELSE /\ cache' = CacheSet("stocks", StocksPayload(spData, o.data))
            /\ writes' = writes + 1
            /\ responses' = Respond(CachedJson("stocks", StocksPayload(spData, o.data), FALSE))
            /\ pc' = "done"
            /\ failedAt' = IF QuoteFailed(o) /\ failedAt = -1 THEN Len(calls) ELSE failedAt
            /\ UNCHANGED <<calls, consult, spData>>
    /\ UNCHANGED <<revision, credentials, now, req, parsed, cache0, served, newsText>>

----------------------------------------------------------------------------
(* News *)

\* A text is a sequence of tokens: "p" is prose, "s" a story object with the
\* five fields, "m" an object that lacks some of them, "\n" a line break.
Story(tok) ==
    IF tok = "s"
    THEN [title |-> "Headline", summary |-> "Summary", url |-> "https://source.com/article",
          source |-> "Source Name", imageUrl |-> "null"]
    ELSE [title |-> "Headline"]

TextBlock(text) == [type |-> "text", text |-> text]

ToolBlock(text) == [type |-> "tool_use", text |-> text]

FiveStories == <<"[", "s", ",", "s", ",", "s", ",", "s", ",", "s", "]">>

\* data.content of a successful model response
NewsContents ==
    { <<>>,
      <<TextBlock(<<"p">>)>>,
      <<ToolBlock(<<"p">>), TextBlock(<<"p">> \o FiveStories)>>,
      <<TextBlock(<<"[", "]">>)>>,
      <<TextBlock(<<"[", "m", "]">>)>>,
      <<TextBlock(<<"]", "p", "[">>)>>,
      <<TextBlock(<<"[", "p", "]">>)>>,
      <<TextBlock(<<"[", "s">>), TextBlock(<<",", "s", "]">>)>>,
      <<ToolBlock(<<"[", "s", "]">>)>> }

NewsData ==
    {[hasContent |-> FALSE, content |-> <<>>]} \cup
    [hasContent : {TRUE}, content : NewsContents]

NewsOutcomes ==
    {[settled |-> "rejected"], [settled |-> "badjson"]} \cup
    [settled : {"json"}, ok : {FALSE}, message : {"undefined", "invalid x-api-key"}] \cup
    [settled : {"json"}, ok : {TRUE}, data : NewsData]

RECURSIVE JoinText(_)
\* content.filter(block => block.type === 'text').map(block => block.text).join('\n')
JoinText(blocks) ==
    IF blocks = <<>> THEN <<>>
    ELSE IF Head(blocks).type # "text" THEN JoinText(Tail(blocks))
    ELSE LET rest == JoinText(Tail(blocks))
             more == \E i \in 1..Len(Tail(blocks)) : Tail(blocks)[i].type = "text"
         IN  IF more THEN Head(blocks).text \o <<"\n">> \o rest
             ELSE Head(blocks).text

NewsText(data) == IF data.hasContent THEN JoinText(data.content) ELSE <<>>

Opens(text) == {i \in 1..Len(text) : text[i] = "["}

Closes(text) == {i \in 1..Len(text) : text[i] = "]"}

FirstOpen(text) == CHOOSE i \in Opens(text) : \A j \in Opens(text) : i <= j

LastClose(text) == CHOOSE i \in Closes(text) : \A j \in Closes(text) : j <= i

\* newsText.match(/\[[\s\S]*\]/): from the first '[' to the last ']' after it
HasMatch(text) ==
    /\ Opens(text) # {}
    /\ \E j \in Closes(text) : j > FirstOpen(text)

JsonMatch(text) == SubSeq(text, FirstOpen(text), LastClose(text))

RECURSIVE StripSpace(_)
StripSpace(t) ==
    IF t = <<>> THEN <<>>
    ELSE IF Head(t) = "\n" THEN StripSpace(Tail(t))
    ELSE <<Head(t)>> \o StripSpace(Tail(t))

\* the tokens between the brackets of a matched span
Inner(m) == LET t == StripSpace(m) IN SubSeq(t, 2, Len(t) - 1)

\* JSON.parse of a matched span succeeds: objects separated by commas
ParseOk(m) ==
    LET e == Inner(m)
    IN  \/ e = <<>>
        \/ /\ Len(e) % 2 = 1
           /\ \A i \in 1..Len(e) :
                IF i % 2 = 1 THEN e[i] \in {"s", "m"} ELSE e[i] = ","

\* the array JSON.parse returns
ParseStories(m) ==
    LET e == Inner(m)
    IN  [i \in 1..((Len(e) + 1) \div 2) |-> Story(e[2 * i - 1])]

StoriesPayload(list) == [kind |-> "stories", list |-> list]

PlaceholderCount == 5

PlaceholderStory ==
    [title |-> "News Unavailable",
     summary |-> "Unable to fetch news at this time. Please try refreshing in a few moments.",
     url |-> "#", source |-> "System", imageUrl |-> "null"]

\* an array one story short
PlaceholderStoriesShort == [i \in 1..(PlaceholderCount - 1) |-> PlaceholderStory]

\* Array(5).fill(null).map(...)
PlaceholderStories == [i \in 1..PlaceholderCount |-> PlaceholderStory]

\* the cache key of a news request
NewsCategory(category) == IF category = "global" THEN "globalNews" ELSE "legalNews"

\* the text holds no JSON array: the placeholder revision answers with
\* placeholder stories, the error revision throws
NoMatch ==
    IF revision = "placeholder"
    THEN /\ responses' = Respond(SuccessJson("stories", StoriesPayload(PlaceholderStories)))
         /\ pc' = "done"
         /\ UNCHANGED <<cache, calls, writes, consult, failedAt, spData>>
    ELSE Throw(BriefingError, "Failed to parse news data", FALSE)

NewsFetchReturns(o) ==
    /\ pc = "news_fetch"
    /\ IF o.settled # "json" THEN Throw(BriefingError, o.settled, TRUE)
       ELSE IF ~o.ok
       THEN Throw(BriefingError,
                  IF o.message = "undefined" THEN "News API failed" ELSE o.message, TRUE)
       ELSE LET text == NewsText(o.data)
            IN  IF ~HasMatch(text) THEN NoMatch
                ELSE IF ~ParseOk(JsonMatch(text))
                THEN Throw(BriefingError, "SyntaxError", FALSE)
                ELSE StoreAndRespond(NewsCategory(req.body.category), "stories",
                                     StoriesPayload(ParseStories(JsonMatch(text))))
    /\ newsText' = IF o.settled = "json" /\ o.ok
                   THEN [set |-> TRUE, text |-> NewsText(o.data)]
                   ELSE newsText
    /\ UNCHANGED <<revision, credentials, now, req, parsed, cache0, served>>

----------------------------------------------------------------------------
(* The briefing handler up to its first await *)

BriefingBodies ==
    { NoBody,
      [present |-> TRUE, action |-> "getWeather", apiKey |-> "undefined", category |-> "undefined"],
      [present |-> TRUE, action |-> "getStocks", apiKey |-> "undefined", category |-> "undefined"],
      [present |-> TRUE, action |-> "bogus", apiKey |-> "sk-key", category |-> "global"],
      [present |-> TRUE, action |-> "undefined", apiKey |-> "undefined", category |-> "undefined"] }
    \cup
    [present : {TRUE}, action : {"getNews"}, apiKey : {"undefined", "", "sk-key"},
     category : {"global", "legal", "undefined"}]

\* the requests sent to the endpoint: every body by POST, some by other methods
BriefingRequests ==
    ({"POST"} \X BriefingBodies) \cup
    ({"OPTIONS", "GET", "PUT"} \X
        {NoBody,
         [present |-> TRUE, action |-> "getNews", apiKey |-> "sk-key", category |-> "global"]})

BriefingRequest(method, body) ==
    /\ pc = "idle"
    /\ served < MaxRequests
    /\ served' = served + 1
    /\ req' = [endpoint |-> "briefing", method |-> method, body |-> body]
    /\ cache0' = cache
    /\ IF MethodIsOptions(method) THEN Reply(End(200))
       ELSE IF ~MethodIsPost(method) THEN Reply(ErrorJson(405, "Method not allowed"))
       ELSE IF ~body.present THEN Throw(BriefingError, "TypeError", FALSE)
       ELSE IF body.action = "getWeather"
       THEN Lookup("weather", "weather", "weather", "weather_fetch")
       ELSE IF body.action = "getStocks"
       THEN Lookup("stocks", "stocks", "quote", "sp_fetch")
       ELSE IF body.action = "getNews"
       THEN IF Falsy(body.apiKey)
            THEN Reply(ErrorJson(400, "Anthropic API key required"))
            ELSE Lookup(NewsCategory(body.category), "stories", "llm", "news_fetch")
       ELSE Reply(ErrorJson(400, "Invalid action"))
    /\ UNCHANGED <<revision, credentials, now, parsed, newsText>>

----------------------------------------------------------------------------
(* The calendar handler *)

CalendarError == "Calendar operation failed"

NoParams == [present |-> FALSE]

CalendarBodies ==
    {NoBody} \cup
    [present : {TRUE}, action : {"getEvent"},
     params : {NoParams} \cup [present : {TRUE}, eventId : {"undefined", "", "evt1"}]] \cup
    [present : {TRUE}, action : {"listEvents", "findFreeTime", "bogus", "undefined"},
     params : {NoParams, [present |-> TRUE, eventId |-> "undefined"]}]

\* JSON.parse(process.env.GOOGLE_CREDENTIALS) returns the credentials object
CredentialsParse == credentials = "valid"

CalendarRequests ==
    ({"POST"} \X CalendarBodies) \cup
    ({"OPTIONS", "GET", "PUT"} \X
        {NoBody,
         [present |-> TRUE, action |-> "getEvent", params |-> [present |-> TRUE, eventId |-> "evt1"]]})

CalendarRequest(method, body) ==
    /\ pc = "idle"
    /\ served < MaxRequests
    /\ served' = served + 1
    /\ req' = [endpoint |-> "calendar", method |-> method, body |-> body]
    /\ cache0' = cache
    /\ IF MethodIsOptions(method) THEN Reply(End(200)) /\ UNCHANGED parsed
       ELSE IF ~MethodIsPost(method)
       THEN Reply(ErrorJson(405, "Method not allowed")) /\ UNCHANGED parsed
       ELSE /\ parsed' = parsed + 1
            /\ IF ~CredentialsParse THEN Throw(CalendarError, "SyntaxError", FALSE)
               ELSE IF ~body.present THEN Throw(CalendarError, "TypeError", FALSE)
               ELSE IF body.action = "listEvents"
               THEN /\ Await("events.list", "cal_list")
                    /\ UNCHANGED <<cache, responses, writes, consult, failedAt, spData>>
               ELSE IF body.action = "getEvent"
               THEN IF ~body.params.present THEN Throw(CalendarError, "TypeError", FALSE)
                    ELSE IF Falsy(body.params.eventId)
                    THEN Reply(ErrorJson(400, "eventId required"))
                    ELSE /\ Await("events.get", "cal_get")
                         /\ UNCHANGED <<cache, responses, writes, consult, failedAt, spData>>
               ELSE IF body.action = "findFreeTime"
               THEN /\ Await("freebusy.query", "cal_freebusy")
                    /\ UNCHANGED <<cache, responses, writes, consult, failedAt, spData>>
               ELSE Reply(ErrorJson(400, "Invalid action"))
    /\ UNCHANGED <<revision, credentials, now, newsText>>

\* response.data of a calendar call that resolved
ListData == {[hasItems |-> FALSE, items |-> <<>>], [hasItems |-> TRUE, items |-> <<"evt1", "evt2">>]}

FreeBusyData == {[hasCalendars |-> FALSE, busy |-> <<>>], [hasCalendars |-> TRUE, busy |-> <<"slot">>]}

CalOutcomes(data) == {[settled |-> "rejected"]} \cup [settled : {"resolved"}, data : data]

CalRespond(key, payload) ==
    /\ responses' = Respond(SuccessJson(key, payload))
    /\ pc' = "done"
    /\ UNCHANGED <<cache, calls, writes, consult, failedAt, spData>>

CalListReturns(o) ==
    /\ pc = "cal_list"
    /\ IF o.settled = "rejected" THEN Throw(CalendarError, "rejected", TRUE)
       ELSE CalRespond("events",
                [kind |-> "events",
                 list |-> IF o.data.hasItems THEN o.data.items ELSE <<>>])
    /\ UNCHANGED <<revision, credentials, now, req, parsed, cache0, served, newsText>>

CalGetReturns(o) ==
    /\ pc = "cal_get"
    /\ IF o.settled = "rejected" THEN Throw(CalendarError, "rejected", TRUE)
       ELSE CalRespond("event", [kind |-> "event", id |-> o.data])
    /\ UNCHANGED <<revision, credentials, now, req, parsed, cache0, served, newsText>>

CalFreeBusyReturns(o) ==
    /\ pc = "cal_freebusy"
    /\ IF o.settled = "rejected" THEN Throw(CalendarError, "rejected", TRUE)
       ELSE IF ~o.data.hasCalendars THEN Throw(CalendarError, "TypeError", FALSE)
       ELSE CalRespond("freebusy", [kind |-> "freebusy", busy |-> o.data.busy])
    /\ UNCHANGED <<revision, credentials, now, req, parsed, cache0, served, newsText>>

----------------------------------------------------------------------------
(* The environment *)

\* time passes, between requests and while a provider call is awaited
Tick ==
    /\ pc # "done"
    /\ now < MaxTime
    /\ now' = now + 1
    /\ UNCHANGED <<revision, credentials, cache, pc, req, spData, newsText, responses, calls,
                   writes, consult, failedAt, parsed, cache0, served>>

\* the handler has returned; the instance is ready for the next request
Complete ==
    /\ pc = "done"
    /\ pc' = "idle"
    /\ req' = NoReq
    /\ spData' = NoQuoteYet
    /\ newsText' = NoText
    /\ responses' = <<>>
    /\ calls' = <<>>
    /\ writes' = 0
    /\ consult' = "none"
    /\ failedAt' = -1
    /\ parsed' = 0
    /\ cache0' = cache
    /\ UNCHANGED <<revision, credentials, now, cache, served>>

Init ==
    /\ revision \in {"placeholder", "error"}
    /\ credentials \in {"valid", "unset", "malformed"}
    /\ now = 0
    /\ cache = [c \in Category |-> EmptyEntry]
    /\ pc = "idle"
    /\ req = NoReq
    /\ spData = NoQuoteYet
    /\ newsText = NoText
    /\ responses = <<>>
    /\ calls = <<>>
    /\ writes = 0
    /\ consult = "none"
    /\ failedAt = -1
    /\ parsed = 0
    /\ cache0 = [c \in Category |-> EmptyEntry]
    /\ served = 0

Returns ==
    \/ \E o \in WeatherOutcomes : WeatherFetchReturns(o)
    \/ \E o \in QuoteOutcomes("SPY") : SpFetchReturns(o)
    \/ \E o \in QuoteOutcomes("QQQ") : NasdaqFetchReturns(o)
    \/ \E o \in NewsOutcomes : NewsFetchReturns(o)
    \/ \E o \in CalOutcomes(ListData) : CalListReturns(o)
    \/ \E o \in CalOutcomes({"evt1"}) : CalGetReturns(o)
    \/ \E o \in CalOutcomes(FreeBusyData) : CalFreeBusyReturns(o)

Next ==
    \/ \E r \in BriefingRequests : BriefingRequest(r[1], r[2])
    \/ \E r \in CalendarRequests : CalendarRequest(r[1], r[2])
    \/ Returns
    \/ Complete
    \/ Tick

Spec == Init /\ [][Next]_vars

\* every awaited provider call settles, and the handler then runs on
FairSpec == Spec /\ WF_vars(Returns) /\ WF_vars(Complete)

----------------------------------------------------------------------------
(* Vocabulary of the properties *)

Done == pc = "done"

\* the one response of a finished request
Sent == responses[1]

HasField(r, f) == f \in DOMAIN r

IsPost(r) == r.endpoint # "none" /\ r.method = "POST"

\* the category a briefing request asks for, "none" when it asks for none
AsksFor(r) ==
    IF r.endpoint = "briefing" /\ r.method = "POST" /\ r.body.present
    THEN IF r.body.action = "getWeather" THEN "weather"
         ELSE IF r.body.action = "getStocks" THEN "stocks"
         ELSE IF r.body.action = "getNews" /\ r.body.apiKey \notin {"undefined", ""}
         THEN (IF r.body.category = "global" THEN "globalNews" ELSE "legalNews")
         ELSE "none"
    ELSE "none"

\* data != null and now - timestamp < TTL
Fresh(entry, t) == entry.data # NullData /\ t - entry.timestamp < TTL

\* the provider calls of one complete fetch sequence of a category
FetchSequence(c) ==
    IF c = "weather" THEN <<"weather">>
    ELSE IF c = "stocks" THEN <<"quote", "quote">>
    ELSE <<"llm">>

IsPrefix(a, b) == Len(a) <= Len(b) /\ a = SubSeq(b, 1, Len(a))

Arrives == pc = "idle" /\ pc' # "idle"

Finishes == pc # "done" /\ pc' = "done"

IsError500(r) ==
    /\ r.status = 500
    /\ DOMAIN r = {"status", "kind", "success", "error", "details"}
    /\ r.kind = "json"

----------------------------------------------------------------------------
Canonical(c, d) ==
    IF c = "weather"
    THEN DOMAIN d = {"kind", "temp", "feels_like", "description", "icon", "humidity",
                     "wind_speed"}
    ELSE IF c = "stocks"
    THEN /\ DOMAIN d = {"kind", "sp500", "nasdaq"}
         /\ DOMAIN d.sp500 = {"price", "change", "changePercent"}
         /\ DOMAIN d.nasdaq = {"price", "change", "changePercent"}
    ELSE /\ DOMAIN d = {"kind", "list"}
         /\ \A i \in 1..Len(d.list) :
              DOMAIN d.list[i] = {"title", "summary", "url", "source", "imageUrl"}

C4_MethodNotAllowed ==
    (req.endpoint # "none" /\ req.method \notin {"POST", "OPTIONS"})
        => /\ Done
           /\ responses = <<ErrorJson(405, "Method not allowed")>>
           /\ calls = <<>>
           /\ writes = 0
           /\ consult = "none"
           /\ cache = cache0
           /\ parsed = 0

C4_Witness ==
    /\ Done
    /\ req.endpoint = "calendar"
    /\ req.method = "PUT"
    /\ req.body.present
    /\ req.body.action = "getEvent"
    /\ Sent.status = 405
    /\ \E c \in Category : cache[c].data # NullData

RecognisedActions(endpoint) ==
    IF endpoint = "briefing" THEN {"getWeather", "getStocks", "getNews"}
    ELSE {"listEvents", "getEvent", "findFreeTime"}

\* C5: a POST whose action is not one the endpoint recognises (a missing action
\* and a missing body included) is answered 400 {error: "Invalid action"} with
\* no provider call, whatever the credentials configuration.
C5_InvalidAction ==
    (IsPost(req) /\ (~req.body.present \/ req.body.action \notin RecognisedActions(req.endpoint)))
        => /\ Done
           /\ responses = <<ErrorJson(400, "Invalid action")>>
           /\ calls = <<>>

\* C6: a calendar getEvent whose eventId is absent (no params, or params with no
\* or an empty eventId) is answered 400 with no call to the calendar provider.
C6_EventIdRequired ==
    ( /\ IsPost(req)
      /\ req.endpoint = "calendar"
      /\ req.body.present
      /\ req.body.action = "getEvent"
      /\ (~req.body.params.present \/ req.body.params.eventId \in {"undefined", ""}) )
        => /\ Done
           /\ Len(responses) = 1
           /\ Sent.status = 400
           /\ calls = <<>>

\* C7: a briefing getNews without an apiKey is answered 400 with no call to the
\* model provider, and the answer is the same for every category.
C7_ApiKeyRequired ==
    ( /\ IsPost(req)
      /\ req.endpoint = "briefing"
      /\ req.body.present
      /\ req.body.action = "getNews"
      /\ req.body.apiKey \in {"undefined", ""} )
        => /\ Done
           /\ responses = <<ErrorJson(400, "Anthropic API key required")>>
           /\ calls = <<>>

C7_Witness ==
    /\ Done
    /\ req.endpoint = "briefing"
    /\ req.method = "POST"
    /\ req.body.present
    /\ req.body.action = "getNews"
    /\ req.body.apiKey = ""
    /\ req.body.category = "global"
    /\ cache["globalNews"].data # NullData
    /\ Sent.status = 400

\* some span of the text is a JSON array
ContainsJsonArray(text) ==
    \E i, j \in 1..Len(text) :
        /\ i < j
        /\ text[i] = "["
        /\ text[j] = "]"
        /\ ParseOk(SubSeq(text, i, j))

\* some '[' of the text is followed by a ']'
ContainsBrackets(text) ==
    \E i, j \in 1..Len(text) : i < j /\ text[i] = "[" /\ text[j] = "]"

IsPlaceholder200(r) ==
    /\ r.status = 200
    /\ r.kind = "json"
    /\ r.success
    /\ r.key = "stories"
    /\ Len(r.payload.list) = 5
    /\ \A i \in 1..5 :
         r.payload.list[i].source = "System" /\ r.payload.list[i].title = "News Unavailable"

\* C8: after a successful model response whose text holds no JSON array the
\* handler has sent exactly one response, either 200 with five placeholder
\* stories or 500 {error, details}; with no bracketed span in the text at all it
\* is the fallback of the deployed revision.
C8_NoArrayFallback ==
    (Done /\ newsText.set /\ ~ContainsJsonArray(newsText.text))
        => /\ Len(responses) = 1
           /\ IsPlaceholder200(Sent) \/ IsError500(Sent)
           /\ ~ContainsBrackets(newsText.text)
                => IF revision = "placeholder"
                   THEN IsPlaceholder200(Sent)
                   ELSE IsError500(Sent) /\ Sent.details = "Failed to parse news data"

C8_Witness ==
    /\ Done
    /\ newsText.set
    /\ newsText.text = <<"]", "p", "[">>
    /\ revision = "placeholder"
    /\ IsPlaceholder200(Sent)

\* C9: once a provider call of a request has failed, the request starts no
\* further provider call and ends with 500 {error, details}.
C9_FailureEndsRequest ==
    failedAt # -1
        => /\ Len(calls) = failedAt
           /\ Done => (Len(responses) = 1 /\ IsError500(Sent))

C10_Safe ==
    /\ Len(responses) <= 1
    /\ Done => (Len(responses) = 1 /\ Sent.status \in {200, 400, 405, 500})
    /\ pc \notin {"idle", "done"} => responses = <<>>

\* C10: every request ends, with exactly one response sent, whose status is
\* 200, 400, 405 or 500; no response is sent before the handler ends and none
\* twice.
C10_OneResponse == []C10_Safe /\ ((req # NoReq) ~> Done)

C10_Witness ==
    /\ Done
    /\ req.endpoint = "calendar"
    /\ req.method = "POST"
    /\ calls = <<"freebusy.query">>
    /\ Sent.status = 500
    /\ failedAt = -1

====
